---- MODULE Spec2Model ----
(***************************************************************************)
(* jit_kernel_emitter (intel_cpu snippets, x64): the constructor's         *)
(* descriptor extraction and register allocation, emit_code's validation,  *)
(* the instruction sequence init_data_pointers emits, and the execution of *)
(* that sequence on a register file for one runtime call.                  *)
(***************************************************************************)
EXTENDS Integers, Sequences, FiniteSets, TLC

VARIABLES
    kernel,             \* the op::Kernel expression given to the constructor
    phase,              \* "new" | "constructed" | "failed" | "emitted" | "rejected" | "running" | "done"
    err,                \* message of the exception thrown, "" when none
    master_shape, num_inputs, num_outputs,
    io_shapes, io_data_layouts, io_data_sizes,
    gp_regs_pool, vec_regs_pool,
    gpr_map, vec_map,   \* gpr_map_pool.first / vec_map_pool.first: sets of <<abstract, physical>>
    mem_access_exprs, general_exprs,
    num_unique_buffers, data_ptr_regs_idx,
    body,               \* the kernel body, reg_info rewritten by map_abstract_registers
    emit_args,          \* <<in, out>> of the emit_code call, <<>> before it
    code,               \* the instructions emitted into h
    init_end,           \* number of instructions emitted when init_data_pointers returns
    call_idx,           \* the runtime index vector of the call being executed
    regs,               \* the general-purpose register file of that call
    pc,                 \* next instruction of code to execute
    oc_args, oc_strides \* arguments and result of one offset_calculation call

members == <<master_shape, num_inputs, num_outputs, io_shapes, io_data_layouts,
             io_data_sizes, gp_regs_pool, vec_regs_pool, gpr_map, vec_map,
             mem_access_exprs, general_exprs, num_unique_buffers,
             data_ptr_regs_idx, body>>
runtime == <<call_idx, regs, pc>>
pure    == <<oc_args, oc_strides>>
emitted == <<emit_args, code, init_end>>
vars    == <<kernel, phase, err, members, emitted, runtime, pure>>

-----------------------------------------------------------------------------
(* Bounds of the model *)

MaxDim == 3        \* extents of a dimension are 1..MaxDim
MaxRank == 3       \* tensors of the offset_calculation runs have rank 1..MaxRank
MaxIdx == 1        \* entries of a runtime index vector are 0..MaxIdx

-----------------------------------------------------------------------------
(* Program constants *)

NumRegs == 16      \* gp_regs_pool.resize(16)
RSP == 4           \* Xbyak::Operand::RSP
RBP == 5           \* Xbyak::Operand::RBP
PtrSize == 8       \* sizeof(size_t) == sizeof(void*) on x64

\* abi_param1 / abi_param2 of the build: System V (rdi, rsi) or Win64 (rcx, rdx)
reg_indexes_idx(abi) == IF abi = "sysv" THEN 7 ELSE 1
reg_const_params_idx(abi) == IF abi = "sysv" THEN 6 ELSE 2

\* jit_snippets_call_args: GET_OFF of the three members, and the values one
\* call stores there; index_base is the address of the runtime index vector,
\* params_base the address of the call-args block.
call_args == [off_src |-> 0, off_dst |-> 96, off_scratch |-> 192,
              src_base |-> 100000, dst_base |-> 200000, scratch |-> 300000,
              index_base |-> 400000, params_base |-> 500000,
              max_ptrs |-> 12, junk |-> 0 - 1]

-----------------------------------------------------------------------------
(* Sequence helpers *)

Range(s) == {s[i] : i \in DOMAIN s}
RECURSIVE ToSeq(_, _)
ToSeq(f, n) == IF n <= 0 THEN <<>> ELSE Append(ToSeq(f, n - 1), f[n])

\* the sequence <<Op(1), ..., Op(n)>>
Tabulate(n, Op(_)) == ToSeq([i \in 1..n |-> Op(i)], n)

Fill(n, v) == Tabulate(n, LAMBDA i : v)
PopBack(s) == SubSeq(s, 1, Len(s) - 1)
Back(s) == s[Len(s)]

RECURSIVE SeqMax(_)
SeqMax(s) == IF Len(s) = 1 THEN s[1]
             ELSE LET m == SeqMax(Tail(s)) IN IF s[1] > m THEN s[1] ELSE m

RECURSIVE RemoveIf(_, _)
\* std::remove_if + erase: drops the members of to_remove, keeps the order
RemoveIf(pool, to_remove) ==
    IF pool = <<>> THEN <<>>
    ELSE IF Head(pool) \in to_remove THEN RemoveIf(Tail(pool), to_remove)
         ELSE <<Head(pool)>> \o RemoveIf(Tail(pool), to_remove)

RECURSIVE FindIf(_, _)
\* std::find_if: the first member of pool outside excluded, or -1 for end()
FindIf(pool, excluded) ==
    IF pool = <<>> THEN 0 - 1
    ELSE IF Head(pool) \notin excluded THEN Head(pool)
         ELSE FindIf(Tail(pool), excluded)

RECURSIVE values_by_key(_)
\* the second components of a set of <<key, value>> pairs with distinct keys,
\* in key order: the iteration of a std::map
values_by_key(map) ==
    IF map = {} THEN <<>>
    ELSE LET least == CHOOSE p \in map : \A q \in map : p[1] <= q[1]
         IN <<least[2]>> \o values_by_key(map \ {least})

IsPermutation(layout) ==
    Range(layout) = 0 .. (Len(layout) - 1)

-----------------------------------------------------------------------------
(* offset_calculation, the lambda of init_data_pointers *)

RECURSIVE stride_loop(_, _, _, _, _)
\* for (k = size-2; k >= 0; k--) { dim_step *= shape[k+1]; strides[k] = ... }
\* k is the 1-based position of the entry being written.
stride_loop(shape, data_size, k, dim_step, strides) ==
    IF k < 1 THEN strides
    ELSE LET step == dim_step * shape[k + 1]
         IN stride_loop(shape, data_size, k - 1, step,
                        [strides EXCEPT ![k] = IF shape[k] # 1 THEN step * data_size ELSE 0])

initial_strides(shape, data_size) ==
    stride_loop(shape, data_size, Len(shape) - 1, 1,
                [Fill(Len(shape), 0) EXCEPT ![Len(shape)] = 1])

RECURSIVE reorder_loop(_, _, _, _, _)
\* for (i = 0; i < layout.size(); i++) reordered_strides[dst_idx] = strides[src_idx];
reorder_loop(strides, layout, is_input, i, reordered) ==
    IF i > Len(layout) THEN reordered
    ELSE LET src_idx == IF is_input THEN layout[i] + 1 ELSE i
             dst_idx == IF is_input THEN i ELSE layout[i] + 1
         IN reorder_loop(strides, layout, is_input, i + 1,
                         [reordered EXCEPT ![dst_idx] = strides[src_idx]])

reorder_strides(strides, layout, is_input) ==
    IF layout # <<>>
    THEN reorder_loop(strides, layout, is_input, 1, Fill(Len(strides), 0))
    ELSE strides

\* faulty variant: pads by the size the vector had before pop_back
pad_strides_before_pop(strides, offset_rank) ==
    Fill(offset_rank - (Len(strides) + 1), 0) \o strides

\* strides.insert(strides.begin(), offset_rank - strides.size(), 0)
pad_strides(strides, offset_rank) ==
    Fill(offset_rank - Len(strides), 0) \o strides

offset_calculation(shape, layout, data_size, is_input, offset_rank) ==
    pad_strides(PopBack(reorder_strides(initial_strides(shape, data_size), layout, is_input)),
                offset_rank)

\* master_shape.insert(master_shape.begin(), ndims - master_shape.size(), 1)
pad_master_shape(shape, ndims) == Fill(ndims - Len(shape), 1) \o shape

-----------------------------------------------------------------------------
(* Expressions of the kernel body.  An expression is named by its position *)
(* in the body, as the code names it by ExpressionPtr.                     *)

Reg(type, idx) == [type |-> type, idx |-> idx]
Gpr(idx) == Reg("gpr", idx)
Vec(idx) == Reg("vec", idx)

\* IOExpression: io_type INPUT / OUTPUT / UNDEFINED, get_index(), its port
\* descriptor, its element type size; rn tells whether the first consumer of an input is a
\* RankNormalization, whose output port descriptor is rn_shape / rn_layout.
IOExpr(io_type, index, shape, layout, esize, reg) ==
    [kind |-> "io", io_type |-> io_type, index |-> index, id |-> 0,
     shape |-> shape, layout |-> layout, esize |-> esize,
     rn |-> FALSE, rn_shape |-> shape, rn_layout |-> layout,
     in_regs |-> IF io_type = "OUTPUT" THEN <<reg>> ELSE <<>>,
     out_regs |-> IF io_type = "OUTPUT" THEN <<>> ELSE <<reg>>]

\* op::Buffer with get_id() = id; its input and output share one register
BufferExpr(id, in_reg, out_reg) ==
    [kind |-> "buffer", io_type |-> "", index |-> 0, id |-> id,
     shape |-> <<>>, layout |-> <<>>, esize |-> 0,
     rn |-> FALSE, rn_shape |-> <<>>, rn_layout |-> <<>>,
     in_regs |-> <<in_reg>>, out_regs |-> <<out_reg>>]

GeneralExpr(in_regs, out_regs) ==
    [kind |-> "general", io_type |-> "", index |-> 0, id |-> 0,
     shape |-> <<>>, layout |-> <<>>, esize |-> 0,
     rn |-> FALSE, rn_shape |-> <<>>, rn_layout |-> <<>>,
     in_regs |-> in_regs, out_regs |-> out_regs]

\* body.get_IO_ops(): the IO expressions of the body, the parameters in the
\* order of their index, then the results in the order of theirs
io_positions(region, io_type) ==
    values_by_key({<<region[p].index, p>> :
                      p \in {q \in DOMAIN region : region[q].kind = "io"
                                                   /\ region[q].io_type = io_type}})

get_IO_ops(region) ==
    io_positions(region, "INPUT") \o io_positions(region, "UNDEFINED")
        \o io_positions(region, "OUTPUT")

-----------------------------------------------------------------------------
(* The constructor: descriptor extraction *)

port_descriptor(expr) ==
    IF expr.io_type = "INPUT" /\ expr.rn
    THEN [shape |-> expr.rn_shape, layout |-> expr.rn_layout]
    ELSE [shape |-> expr.shape, layout |-> expr.layout]

RECURSIVE extract_descriptors(_, _, _)
\* the loop over io_exprs; acc carries num_inputs, num_outputs, the three
\* lists and the message of the first failed assertion
extract_descriptors(region, io_exprs, acc) ==
    IF io_exprs = <<>> THEN acc
    ELSE LET expr == region[Head(io_exprs)]
             desc == port_descriptor(expr)
             counted == [acc EXCEPT
                            !.num_inputs = @ + (IF expr.io_type = "INPUT" THEN 1 ELSE 0),
                            !.num_outputs = @ + (IF expr.io_type = "OUTPUT" THEN 1 ELSE 0)]
         IN IF expr.io_type \notin {"INPUT", "OUTPUT"}
            THEN [acc EXCEPT !.err = "detected unsupported io_type"]
            ELSE IF Len(desc.shape) # Len(desc.layout)
            THEN [counted EXCEPT !.err = "Shape and layout must have the same length"]
            ELSE IF ~(SeqMax(desc.layout) < Len(desc.shape))
            THEN [counted EXCEPT !.err = "Max layout index can't be larger than the shape size"]
            ELSE extract_descriptors(region, Tail(io_exprs),
                     [counted EXCEPT !.io_shapes = Append(@, desc.shape),
                                     !.io_data_layouts = Append(@, desc.layout),
                                     !.io_data_sizes = Append(@, expr.esize)])

-----------------------------------------------------------------------------
(* The constructor: register pools and the partition of the body *)

\* for (i = 0; i < 16; i++) gp_regs_pool[i] = vec_regs_pool[i] = 15 - i;
initial_pool == Tabulate(NumRegs, LAMBDA i : NumRegs - i)

\* faulty variant: abi_param2 is not reserved
reserved_regs_without_params(abi) == {RSP, RBP, reg_indexes_idx(abi)}

reserved_regs(abi) == {RSP, RBP, reg_indexes_idx(abi), reg_const_params_idx(abi)}

\* faulty variant: nothing is removed
remove_nothing_from_pool(pool, to_remove) == pool

remove_regs_from_pool(pool, to_remove) == RemoveIf(pool, to_remove)

\* faulty variant: every buffer node is a memory-access expression
classify_expr_every_buffer(region, i, acc) ==
    LET expr == region[i]
    IN IF expr.kind = "io"
       THEN [acc EXCEPT !.mem_access_exprs = Append(@, i)]
       ELSE IF expr.kind = "buffer"
       THEN [acc EXCEPT !.mem_access_exprs = Append(@, i),
                        !.unique_buffers = @ \cup {expr.id}]
       ELSE [acc EXCEPT !.general_exprs = Append(@, i)]

\* one iteration of the loop over body: which list, if any, takes expr i
classify_expr(region, i, acc) ==
    LET expr == region[i]
    IN IF expr.kind = "io"
       THEN [acc EXCEPT !.mem_access_exprs = Append(@, i)]
       ELSE IF expr.kind = "buffer"
       THEN IF expr.id \notin acc.unique_buffers
            THEN [acc EXCEPT !.mem_access_exprs = Append(@, i),
                             !.unique_buffers = @ \cup {expr.id}]
            ELSE acc
       ELSE [acc EXCEPT !.general_exprs = Append(@, i)]

RECURSIVE classify(_, _, _)
classify(region, i, acc) ==
    IF i > Len(region) THEN acc
    ELSE classify(region, i + 1, classify_expr(region, i, acc))

-----------------------------------------------------------------------------
(* jit_container_emitter::map_abstract_registers *)

IsMapped(map, abstract) == \E p \in map : p[1] = abstract
Physical(map, abstract) == (CHOOSE p \in map : p[1] = abstract)[2]

RECURSIVE map_regs(_, _, _)
\* maps the registers of one reg_info vector; a register seen for the first
\* time takes the back of its pool.  st carries both maps, both pools, the
\* body and the message of a failed assertion.
map_regs(st, abstract_regs, physical_regs) ==
    IF abstract_regs = <<>> \/ st.err # "" THEN [st |-> st, regs |-> physical_regs]
    ELSE LET r == Head(abstract_regs)
             gpr == r.type = "gpr"
             map == IF gpr THEN st.gpr_map ELSE st.vec_map
             pool == IF gpr THEN st.gp_regs_pool ELSE st.vec_regs_pool
         IN IF IsMapped(map, r.idx)
            THEN map_regs(st, Tail(abstract_regs),
                          Append(physical_regs, Reg(r.type, Physical(map, r.idx))))
            ELSE IF pool = <<>>
            THEN [st |-> [st EXCEPT !.err = "Cannot map registers to physical ones: not enough regs in the pool"],
                  regs |-> physical_regs]
            ELSE map_regs(IF gpr
                          THEN [st EXCEPT !.gpr_map = @ \cup {<<r.idx, Back(pool)>>},
                                          !.gp_regs_pool = PopBack(@)]
                          ELSE [st EXCEPT !.vec_map = @ \cup {<<r.idx, Back(pool)>>},
                                          !.vec_regs_pool = PopBack(@)],
                          Tail(abstract_regs),
                          Append(physical_regs, Reg(r.type, Back(pool))))

RECURSIVE map_abstract_registers(_, _)
\* for each expression of the list: map its input then its output registers
\* and store the physical ones with set_reg_info
map_abstract_registers(st, expressions) ==
    IF expressions = <<>> \/ st.err # "" THEN st
    ELSE LET i == Head(expressions)
             ins == map_regs(st, st.body[i].in_regs, <<>>)
             outs == map_regs(ins.st, st.body[i].out_regs, <<>>)
         IN IF outs.st.err # "" THEN outs.st
            ELSE map_abstract_registers(
                     [outs.st EXCEPT !.body[i].in_regs = ins.regs,
                                     !.body[i].out_regs = outs.regs],
                     Tail(expressions))

-----------------------------------------------------------------------------
(* jit_kernel_emitter::jit_kernel_emitter *)

\* the members of an emitter whose constructor threw: nothing was built
no_members ==
    [err |-> "", master_shape |-> <<>>, num_inputs |-> 0, num_outputs |-> 0,
     io_shapes |-> <<>>, io_data_layouts |-> <<>>, io_data_sizes |-> <<>>,
     gp_regs_pool |-> <<>>, vec_regs_pool |-> <<>>, gpr_map |-> {}, vec_map |-> {},
     mem_access_exprs |-> <<>>, general_exprs |-> <<>>, unique_buffers |-> {},
     num_unique_buffers |-> 0, data_ptr_regs_idx |-> <<>>, body |-> <<>>]

thrown(msg) == [no_members EXCEPT !.err = msg]

\* lines 34-76: body, master_shape and the IO descriptors
construct_descriptors(k) ==
    extract_descriptors(k.region, get_IO_ops(k.region),
        [no_members EXCEPT !.body = k.region,
                           !.master_shape = pad_master_shape(k.master_shape,
                                                             k.parallel_executor_ndims)])

\* lines 78-117: the pools without the reserved registers, the two lists
construct_pools(k, m) ==
    LET lists == classify(k.region, 1, m)
    IN [lists EXCEPT !.gp_regs_pool = remove_regs_from_pool(initial_pool, reserved_regs(k.abi)),
                     !.vec_regs_pool = initial_pool,
                     !.num_unique_buffers = Cardinality(lists.unique_buffers)]

\* faulty variant: the physical registers in the order they left the pool
collect_in_allocation_order(map) == values_by_key({<<m[2], m[2]>> : m \in map})

\* lines 122-123: the physical registers of gpr_map_pool.first, in map order
collect_data_ptr_regs(map) == values_by_key(map)

\* lines 126-127: both ABI registers go back to the pool
return_abi_regs(pool, abi) ==
    Append(Append(pool, reg_indexes_idx(abi)), reg_const_params_idx(abi))

\* faulty variant: data_ptr_regs_idx is filled after the general pass
construct_allocation_late(k, m) ==
    LET mem == map_abstract_registers(m, m.mem_access_exprs)
        ptrs == [mem EXCEPT !.gp_regs_pool = return_abi_regs(@, k.abi)]
        gen == map_abstract_registers(ptrs, ptrs.general_exprs)
    IN IF mem.err # "" THEN thrown(mem.err)
       ELSE IF gen.err # "" THEN thrown(gen.err)
       ELSE [gen EXCEPT !.data_ptr_regs_idx = collect_data_ptr_regs(gen.gpr_map)]

\* lines 121-128: both allocation passes
construct_allocation(k, m) ==
    LET mem == map_abstract_registers(m, m.mem_access_exprs)
        ptrs == [mem EXCEPT !.data_ptr_regs_idx = collect_data_ptr_regs(mem.gpr_map),
                            !.gp_regs_pool = return_abi_regs(@, k.abi)]
        gen == map_abstract_registers(ptrs, ptrs.general_exprs)
    IN IF mem.err # "" THEN thrown(mem.err)
       ELSE IF gen.err # "" THEN thrown(gen.err)
       ELSE gen

construct(k) ==
    IF k.region = <<>> THEN thrown("invoked with empty body")
    ELSE IF ~k.has_compile_params
    THEN thrown("invoked with op::Kernel that contains no compile_params")
    ELSE LET descs == construct_descriptors(k)
         IN IF descs.err # "" THEN thrown(descs.err)
            ELSE construct_allocation(k, construct_pools(k, descs))

-----------------------------------------------------------------------------
(* Emitted instructions *)

Instr(op, dst, src, imm) == [op |-> op, dst |-> dst, src |-> src, imm |-> imm]
MovLoad(dst, base, off) == Instr("mov_load", dst, base, off)     \* mov dst, [base + off]
MovImm(dst, imm) == Instr("mov_imm", dst, 0 - 1, imm)            \* mov dst, imm
ImulMem(dst, base, off) == Instr("imul_mem", dst, base, off)     \* imul dst, [base + off]
Add(dst, src) == Instr("add", dst, src, 0)                       \* add dst, src
Preamble == Instr("preamble", 0 - 1, 0 - 1, 0)
Postamble == Instr("postamble", 0 - 1, 0 - 1, 0)
EmitExpr(i) == Instr("emit", 0 - 1, 0 - 1, i)                    \* the emitter of body expression i

RECURSIVE Flatten(_)
Flatten(ss) == IF ss = <<>> THEN <<>> ELSE Head(ss) \o Flatten(Tail(ss))

-----------------------------------------------------------------------------
(* jit_kernel_emitter::init_data_pointers *)

\* data_offsets[i] for every input and output
data_offsets(self) ==
    Tabulate(self.num_inputs + self.num_outputs, LAMBDA i :
        offset_calculation(self.io_shapes[i], self.io_data_layouts[i],
                           self.io_data_sizes[i], i <= self.num_inputs,
                           Len(self.master_shape) - 1))

\* faulty variant: the iteration without the test of the master-shape extent
offset_step_unguarded(self, reg_indexes, pointer, offsets, reg_tmp, j) ==
    IF offsets[j + 1] # 0
    THEN <<MovImm(reg_tmp, offsets[j + 1]),
           ImulMem(reg_tmp, reg_indexes, j * PtrSize),
           Add(pointer, reg_tmp)>>
    ELSE <<>>

\* one iteration j (0-based) of the loop of init_ptr_with_offset
offset_step(self, reg_indexes, pointer, offsets, reg_tmp, j) ==
    IF self.master_shape[j + 1] # 1 /\ offsets[j + 1] # 0
    THEN <<MovImm(reg_tmp, offsets[j + 1]),
           ImulMem(reg_tmp, reg_indexes, j * PtrSize),
           Add(pointer, reg_tmp)>>
    ELSE <<>>

init_ptr_with_offset(self, reg_indexes, pointer, offsets, reg_tmp) ==
    Flatten(Tabulate(Len(self.master_shape) - 1, LAMBDA j1 :
                offset_step(self, reg_indexes, pointer, offsets, reg_tmp, j1 - 1)))

\* find_if over gp_regs_pool for a register that is neither ABI register
spare_corruptable_gpr(self, reg_indexes, reg_const_params) ==
    FindIf(self.gp_regs_pool, {reg_indexes, reg_const_params})

\* the load of the base pointer of tensor i (0-based)
load_base_pointer(self, reg_const_params, data_ptr_regs, i) ==
    IF i < self.num_inputs
    THEN MovLoad(data_ptr_regs[i + 1], reg_const_params, call_args.off_src + i * PtrSize)
    ELSE MovLoad(data_ptr_regs[i + 1], reg_const_params,
                 call_args.off_dst + (i - self.num_inputs) * PtrSize)

\* faulty variant: the last register of the vector, a buffer's, when no spare exists
initial_reg_tmp_last_of_vector(self, data_ptr_regs, spare) ==
    IF spare = 0 - 1 THEN data_ptr_regs[Len(data_ptr_regs)] ELSE spare

\* reg_tmp before the loop: the last tensor's register when no spare exists
initial_reg_tmp(self, data_ptr_regs, spare) ==
    IF spare = 0 - 1 THEN data_ptr_regs[self.num_inputs + self.num_outputs] ELSE spare

init_data_pointers(self, reg_indexes, reg_const_params, data_ptr_regs) ==
    LET num_params == self.num_inputs + self.num_outputs
        offsets == data_offsets(self)
        spare == spare_corruptable_gpr(self, reg_indexes, reg_const_params)
        last_iter_explicitly == spare = 0 - 1
        reg_tmp == initial_reg_tmp(self, data_ptr_regs, spare)
        buffers == Tabulate(self.num_unique_buffers, LAMBDA b :
                       MovLoad(data_ptr_regs[num_params + b], reg_const_params,
                               call_args.off_scratch))
        looped == num_params - (IF last_iter_explicitly THEN 1 ELSE 0)
        loop == Flatten(Tabulate(looped, LAMBDA i1 :
                    <<load_base_pointer(self, reg_const_params, data_ptr_regs, i1 - 1)>>
                    \o init_ptr_with_offset(self, reg_indexes, data_ptr_regs[i1],
                                            offsets[i1], reg_tmp)))
        last == IF last_iter_explicitly
                THEN <<MovLoad(data_ptr_regs[looped + 1], reg_const_params,
                               call_args.off_dst + (looped - self.num_inputs) * PtrSize)>>
                     \o init_ptr_with_offset(self, reg_indexes, data_ptr_regs[looped + 1],
                                             offsets[looped + 1], reg_const_params)
                ELSE <<>>
    IN buffers \o loop \o last

-----------------------------------------------------------------------------
(* jit_kernel_emitter::emit_code, validate_arguments, emit_impl *)

validate_arguments(self, in, out) ==
    IF in # <<>> THEN "got invalid number of inputs"
    ELSE IF out # <<>> THEN "got invalid number of outputs"
    ELSE IF Len(self.data_ptr_regs_idx)
              # self.num_inputs + self.num_outputs + self.num_unique_buffers
    THEN "number of inputs and outputs is inconsistent with the number of allocated registers"
    ELSE ""

\* preamble and init_data_pointers: lines 236-242
emit_prologue(self, abi) ==
    <<Preamble>> \o init_data_pointers(self, reg_indexes_idx(abi),
                                       reg_const_params_idx(abi), self.data_ptr_regs_idx)

emit_impl(self, abi) ==
    emit_prologue(self, abi) \o Tabulate(Len(self.body), LAMBDA i : EmitExpr(i))
        \o <<Postamble>>

\* faulty variant: the preamble is emitted before the arguments are validated
emit_code_preamble_first(self, abi, in, out) ==
    LET failed == validate_arguments(self, in, out)
    IN IF failed # "" THEN [err |-> failed, code |-> <<Preamble>>, init_end |-> 0]
       ELSE [err |-> "", code |-> emit_impl(self, abi),
             init_end |-> Len(emit_prologue(self, abi))]

\* the exception thrown, if any, and what h holds when emit_code returns
emit_code(self, abi, in, out) ==
    LET failed == validate_arguments(self, in, out)
    IN IF failed # "" THEN [err |-> failed, code |-> <<>>, init_end |-> 0]
       ELSE [err |-> "", code |-> emit_impl(self, abi),
             init_end |-> Len(emit_prologue(self, abi))]

-----------------------------------------------------------------------------
(* Execution of the emitted code for one call *)

\* src_ptrs[i], dst_ptrs[k] of the call-args block (0-based)
src_ptr(i) == call_args.src_base + 1000 * i
dst_ptr(k) == call_args.dst_base + 1000 * k

\* the 8-byte word at addr: an entry of the index vector, a member of the
\* call-args block, or a word the call does not own
Mem(addr, idx) ==
    IF \E j \in 0..(Len(idx) - 1) : addr = call_args.index_base + j * PtrSize
    THEN idx[((addr - call_args.index_base) \div PtrSize) + 1]
    ELSE IF \E i \in 0..(call_args.max_ptrs - 1) :
                addr = call_args.params_base + call_args.off_src + i * PtrSize
    THEN src_ptr((addr - call_args.params_base - call_args.off_src) \div PtrSize)
    ELSE IF \E i \in 0..(call_args.max_ptrs - 1) :
                addr = call_args.params_base + call_args.off_dst + i * PtrSize
    THEN dst_ptr((addr - call_args.params_base - call_args.off_dst) \div PtrSize)
    ELSE IF addr = call_args.params_base + call_args.off_scratch
    THEN call_args.scratch
    ELSE call_args.junk

\* the register file after one instruction
Execute(ins, rf, idx) ==
    IF ins.op = "mov_load" THEN [rf EXCEPT ![ins.dst] = Mem(rf[ins.src] + ins.imm, idx)]
    ELSE IF ins.op = "mov_imm" THEN [rf EXCEPT ![ins.dst] = ins.imm]
    ELSE IF ins.op = "imul_mem"
    THEN [rf EXCEPT ![ins.dst] = rf[ins.dst] * Mem(rf[ins.src] + ins.imm, idx)]
    ELSE IF ins.op = "add" THEN [rf EXCEPT ![ins.dst] = rf[ins.dst] + rf[ins.src]]
    ELSE rf

\* the register file at entry: abi_param1 and abi_param2 carry the arguments
entry_regs(abi) ==
    [r \in 0..(NumRegs - 1) |->
        IF r = reg_indexes_idx(abi) THEN call_args.index_base
        ELSE IF r = reg_const_params_idx(abi) THEN call_args.params_base
        ELSE call_args.junk]

-----------------------------------------------------------------------------
(* State machine *)

self ==
    [master_shape |-> master_shape, num_inputs |-> num_inputs,
     num_outputs |-> num_outputs, io_shapes |-> io_shapes,
     io_data_layouts |-> io_data_layouts, io_data_sizes |-> io_data_sizes,
     gp_regs_pool |-> gp_regs_pool, vec_regs_pool |-> vec_regs_pool,
     num_unique_buffers |-> num_unique_buffers,
     data_ptr_regs_idx |-> data_ptr_regs_idx, body |-> body]

unconstructed ==
    /\ master_shape = <<>> /\ num_inputs = 0 /\ num_outputs = 0
    /\ io_shapes = <<>> /\ io_data_layouts = <<>> /\ io_data_sizes = <<>>
    /\ gp_regs_pool = <<>> /\ vec_regs_pool = <<>> /\ gpr_map = {} /\ vec_map = {}
    /\ mem_access_exprs = <<>> /\ general_exprs = <<>>
    /\ num_unique_buffers = 0 /\ data_ptr_regs_idx = <<>> /\ body = <<>>

idle ==
    /\ emit_args = <<>> /\ code = <<>> /\ init_end = 0
    /\ call_idx = <<>> /\ regs = <<>> /\ pc = 0

\* arguments emit_code may be called with
EmitArgs == {<<>>, <<0>>}

\* index vectors of a call: one entry per dimension of master_shape; the
\* executor iterates the outer dimensions only, the innermost entry stays 0
IndexVectors(rank) == {v \in [1..rank -> 0..MaxIdx] : v[rank] = 0}

\* jit_kernel_emitter(h, isa, expr)
Construct ==
    /\ phase = "new"
    /\ LET m == construct(kernel)
       IN /\ phase' = IF m.err = "" THEN "constructed" ELSE "failed"
          /\ err' = m.err
          /\ master_shape' = m.master_shape
          /\ num_inputs' = m.num_inputs
          /\ num_outputs' = m.num_outputs
          /\ io_shapes' = m.io_shapes
          /\ io_data_layouts' = m.io_data_layouts
          /\ io_data_sizes' = m.io_data_sizes
          /\ gp_regs_pool' = m.gp_regs_pool
          /\ vec_regs_pool' = m.vec_regs_pool
          /\ gpr_map' = m.gpr_map
          /\ vec_map' = m.vec_map
          /\ mem_access_exprs' = m.mem_access_exprs
          /\ general_exprs' = m.general_exprs
          /\ num_unique_buffers' = m.num_unique_buffers
          /\ data_ptr_regs_idx' = m.data_ptr_regs_idx
          /\ body' = m.body
    /\ UNCHANGED <<kernel, emitted, runtime, pure>>

\* emit_code(in, out, pool_vec_idx, pool_gpr_idxs)
EmitCode ==
    /\ phase = "constructed"
    /\ \E in \in EmitArgs, out \in EmitArgs :
          LET e == emit_code(self, kernel.abi, in, out)
          IN /\ phase' = IF e.err = "" THEN "emitted" ELSE "rejected"
             /\ err' = e.err
             /\ emit_args' = <<in, out>>
             /\ code' = e.code
             /\ init_end' = e.init_end
    /\ UNCHANGED <<kernel, members, runtime, pure>>

\* the parallel executor calls the generated kernel with an index vector
Call ==
    /\ phase \in {"emitted", "done"}
    /\ \E idx \in IndexVectors(Len(master_shape)) :
          /\ call_idx' = idx
          /\ regs' = entry_regs(kernel.abi)
          /\ pc' = 1
    /\ phase' = "running"
    /\ UNCHANGED <<kernel, err, members, emitted, pure>>

\* the processor executes the next instruction of the generated kernel
Step ==
    /\ phase = "running"
    /\ regs' = Execute(code[pc], regs, call_idx)
    /\ pc' = pc + 1
    /\ phase' = IF pc = Len(code) THEN "done" ELSE "running"
    /\ UNCHANGED <<kernel, err, members, emitted, call_idx, pure>>

Next == Construct \/ EmitCode \/ Call \/ Step

-----------------------------------------------------------------------------
(* The kernels the constructor is given *)

Kernel(abi, shape, ndims, region) ==
    [abi |-> abi, master_shape |-> shape, parallel_executor_ndims |-> ndims,
     has_compile_params |-> TRUE, region |-> region]

Abis == {"sysv", "win64"}

\* port descriptors and element sizes of the tensors of the kernels
TensorDescs ==
    << [shape |-> <<2, 3, 4>>, layout |-> <<0, 1, 2>>, esize |-> 4],
       [shape |-> <<2, 1, 4>>, layout |-> <<0, 1, 2>>, esize |-> 4],
       [shape |-> <<3, 2, 4>>, layout |-> <<1, 0, 2>>, esize |-> 2],
       [shape |-> <<3, 4>>,    layout |-> <<0, 1>>,    esize |-> 1],
       [shape |-> <<4, 3, 2>>, layout |-> <<2, 0, 1>>, esize |-> 2] >>

TensorDesc(t, variant) == TensorDescs[((t + variant) % Len(TensorDescs)) + 1]

\* master shapes before the padding to parallel_executor_ndims = 3
MasterShapes == << <<2, 3, 4>>, <<3, 4>> >>

Reverse(s) == Tabulate(Len(s), LAMBDA i : s[Len(s) + 1 - i])

\* A body of ni inputs, no outputs and the buffer nodes of ids buffers.  The
\* abstract register of memory-access slot t (inputs, then outputs, then
\* buffer nodes) is assign[t]; one general expression reads every pointer
\* register, a second one owns extra further general-purpose registers.
Region(ni, no, buffers, assign, extra, variant, reversed) ==
    LET ins == Tabulate(ni, LAMBDA t :
                   LET d == TensorDesc(t, variant)
                   IN IOExpr("INPUT", t - 1, d.shape, d.layout, d.esize, Gpr(assign[t])))
        outs == Tabulate(no, LAMBDA t :
                   LET d == TensorDesc(ni + t, variant)
                   IN IOExpr("OUTPUT", t - 1, d.shape, d.layout, d.esize, Gpr(assign[ni + t])))
        bufs == Tabulate(Len(buffers), LAMBDA b :
                   BufferExpr(buffers[b], Gpr(assign[ni + no + b]), Gpr(assign[ni + no + b])))
        access == GeneralExpr(Tabulate(ni + no + Len(buffers), LAMBDA t : Gpr(assign[t])),
                              <<Vec(0)>>)
        work == GeneralExpr(<<Vec(0), Vec(1)>>, Tabulate(extra, LAMBDA g : Gpr(100 + g)))
        region == ins \o bufs \o <<access, work>> \o outs
    IN IF reversed THEN Reverse(region) ELSE region

\* the abstract registers AssignRegisters gives: input i -> i, output k ->
\* ni + k, every buffer node of id b -> ni + no + b
canonical_assign(ni, no, buffers) ==
    Tabulate(ni + no + Len(buffers), LAMBDA t :
        IF t <= ni + no THEN t - 1 ELSE ni + no + buffers[t - ni - no])

\* kernels with canonical registers: tensor counts, buffer ids, numbers of
\* further general-purpose registers up to and beyond what the pool holds
IOCounts == {<<1, 1>>, <<2, 1>>, <<1, 2>>}
BufferIds == {<<>>, <<0>>, <<1, 0, 1>>}
PoolSize == NumRegs - 4
ExtraRegs(used) == {0, 2, PoolSize + 2 - used, PoolSize + 3 - used}

CanonicalKernels ==
    UNION { { Kernel(abi, MasterShapes[variant], 3,
                     Region(c[1], c[2], b, canonical_assign(c[1], c[2], b),
                            extra, variant, reversed)) :
                abi \in Abis, variant \in {1, 2}, reversed \in BOOLEAN,
                extra \in ExtraRegs(c[1] + c[2] + Cardinality(Range(b))) } :
            c \in IOCounts, b \in BufferIds }

\* kernels of one input, one output and two buffer nodes whose four abstract
\* registers are any of 0..MaxAbstractReg
MaxAbstractReg == 3

ArbitraryKernels ==
    { Kernel("sysv", MasterShapes[1], 3, Region(1, 1, b, assign, 0, 1, FALSE)) :
        b \in {<<0, 1>>, <<0, 0>>}, assign \in [1..4 -> 0..MaxAbstractReg] }

\* kernels of 11 to 15 tensors and buffers, canonical registers
BigCounts ==
    { <<6, 4, <<0>>, 0>>, <<7, 4, <<0>>, 0>>, <<7, 4, <<0>>, 1>>, <<6, 4, <<0, 1>>, 0>>,
      <<8, 4, <<0>>, 0>>, <<8, 5, <<0, 1>>, 0>> }

BigKernels ==
    { Kernel(abi, MasterShapes[1], 3,
             Region(c[1], c[2], c[3], canonical_assign(c[1], c[2], c[3]), c[4], 1, FALSE)) :
        abi \in Abis, c \in BigCounts }

\* an input whose first consumer is a RankNormalization to rank 3
NormalizedKernels ==
    { LET k == Kernel(abi, MasterShapes[1], 3,
                      Region(1, 1, <<>>, canonical_assign(1, 1, <<>>), 0, 3, FALSE))
      IN [k EXCEPT !.region[1].rn = TRUE,
                   !.region[1].rn_shape = <<1>> \o k.region[1].shape,
                   !.region[1].rn_layout = <<0, 1, 2>>] : abi \in Abis }

\* kernels the constructor refuses
MalformedKernels ==
    LET k == Kernel("sysv", MasterShapes[1], 3,
                    Region(1, 1, <<>>, canonical_assign(1, 1, <<>>), 0, 1, FALSE))
    IN { [k EXCEPT !.region = <<>>],
         [k EXCEPT !.has_compile_params = FALSE],
         [k EXCEPT !.region[1].layout = <<0, 1>>],
         [k EXCEPT !.region[1].layout = <<0, 3, 1>>],
         [k EXCEPT !.region[4].layout = <<0, 1>>],
         [k EXCEPT !.region[1].io_type = "UNDEFINED"] }

Kernels == CanonicalKernels \cup ArbitraryKernels \cup BigKernels
               \cup NormalizedKernels \cup MalformedKernels

Init ==
    /\ kernel \in Kernels
    /\ phase = "new"
    /\ err = ""
    /\ unconstructed
    /\ idle
    /\ oc_args = <<>>
    /\ oc_strides = <<>>

Spec == Init /\ [][Next]_vars

-----------------------------------------------------------------------------
(* offset_calculation on its own: any shape, permutation layout, element   *)
(* size and role, under a master shape of at least the tensor's rank       *)

ElementSizes == {1, 2, 4}

Shapes(n) == [1..n -> 1..MaxDim]
Layouts(n) == {l \in [1..n -> 0..(n - 1)] : IsPermutation(l)}

OffsetArgs ==
    UNION { [shape : Shapes(n), layout : Layouts(n), data_size : ElementSizes,
             is_input : BOOLEAN] : n \in 1..MaxRank }

InitOffsets ==
    /\ oc_args \in OffsetArgs
    /\ \E m \in Len(oc_args.shape)..MaxRank, ndims \in 1..(MaxRank + 1) :
          /\ m <= ndims
          /\ kernel = Kernel("sysv", Fill(m, 2), ndims, <<>>)
    /\ phase = "args"
    /\ err = ""
    /\ unconstructed
    /\ idle
    /\ oc_strides = <<>>

\* line 40 of the constructor
PadMasterShape ==
    /\ phase = "args"
    /\ master_shape' = pad_master_shape(kernel.master_shape, kernel.parallel_executor_ndims)
    /\ phase' = "padded"
    /\ UNCHANGED <<kernel, err, num_inputs, num_outputs, io_shapes, io_data_layouts,
                   io_data_sizes, gp_regs_pool, vec_regs_pool, gpr_map, vec_map,
                   mem_access_exprs, general_exprs, num_unique_buffers,
                   data_ptr_regs_idx, body, emitted, runtime, pure>>

\* one call of the lambda, with offset_rank = master_shape.size() - 1
ComputeOffsets ==
    /\ phase = "padded"
    /\ oc_strides' = offset_calculation(oc_args.shape, oc_args.layout, oc_args.data_size,
                                        oc_args.is_input, Len(master_shape) - 1)
    /\ phase' = "computed"
    /\ UNCHANGED <<kernel, err, members, emitted, runtime, oc_args>>

NextOffsets == PadMasterShape \/ ComputeOffsets

SpecOffsets == InitOffsets /\ [][NextOffsets]_vars

-----------------------------------------------------------------------------
(* Properties of the generated pointer initialization *)

RegIndexes == reg_indexes_idx(kernel.abi)
RegConstParams == reg_const_params_idx(kernel.abi)
NumParams == num_inputs + num_outputs
Starved == spare_corruptable_gpr(self, RegIndexes, RegConstParams) = 0 - 1

\* the instructions of init_data_pointers are code[2..init_end]
InitExecuted == phase \in {"running", "done"} /\ pc = init_end + 1
InInit == phase = "running" /\ 2 <= pc /\ pc <= init_end

RECURSIVE OffsetSum(_, _, _)
\* sum over j <= n with master_shape[j] # 1 of call_idx[j] * offsets[j]
OffsetSum(offsets, idx, n) ==
    IF n = 0 THEN 0
    ELSE OffsetSum(offsets, idx, n - 1)
         + (IF master_shape[n] # 1 THEN idx[n] * offsets[n] ELSE 0)

ExpectedPointer(i) ==
    (IF i <= num_inputs THEN src_ptr(i - 1) ELSE dst_ptr(i - num_inputs - 1))
    + OffsetSum(data_offsets(self)[i], call_idx, Len(master_shape) - 1)

C1_WitnessNormal ==
    /\ InitExecuted /\ ~Starved
    /\ regs[data_ptr_regs_idx[NumParams]] # dst_ptr(num_outputs - 1)

\* registers that received their base pointer before instruction p
LoadedBefore(p) == {code[q].dst : q \in {r \in 2..(p - 1) : code[r].op = "mov_load"}}

\* C10: inside the pointer initialization, a scratch register about to be
\* written is not the index register, not a pointer register already loaded,
\* not the pointer the product is added to; and every load through the
\* parameter-block or the index register still finds the argument there
C10_ScratchHoldsNothingLive ==
    InInit =>
        /\ code[pc].op = "mov_imm" =>
              /\ code[pc].dst # RegIndexes
              /\ code[pc].dst \notin LoadedBefore(pc)
              /\ code[pc + 2].op = "add" /\ code[pc + 2].dst # code[pc].dst
        /\ code[pc].op = "mov_load" =>
              /\ code[pc].src = RegConstParams
              /\ regs[RegConstParams] = call_args.params_base
        /\ code[pc].op = "imul_mem" =>
              /\ code[pc].src = RegIndexes
              /\ regs[RegIndexes] = call_args.index_base

\* the parameter-block register is the scratch of the last tensor
C10_Witness ==
    /\ InInit /\ Starved
    /\ code[pc].op = "mov_imm" /\ code[pc].dst = RegConstParams

C10_WitnessPointerAsScratch ==
    /\ InInit /\ Starved
    /\ code[pc].op = "mov_imm" /\ code[pc].dst = data_ptr_regs_idx[NumParams]

-----------------------------------------------------------------------------
(* Properties of emit_code *)

EmitCalled == emit_args # <<>>
CountMismatch == Len(data_ptr_regs_idx) # num_inputs + num_outputs + num_unique_buffers

\* C9: a call of emit_code with a nonempty in, a nonempty out or a register
\* count that differs from the tensor and buffer count throws, and h holds
\* no instruction, not even the preamble
C9_ValidationPrecedesEmission ==
    (EmitCalled /\ (emit_args[1] # <<>> \/ emit_args[2] # <<>> \/ CountMismatch))
        => (phase = "rejected" /\ err # "" /\ code = <<>>)

C9_Witness ==
    /\ phase = "rejected" /\ emit_args = << <<>>, <<>> >> /\ CountMismatch

C9_WitnessArity ==
    /\ phase = "rejected" /\ emit_args[2] # <<>> /\ ~CountMismatch

-----------------------------------------------------------------------------
(* Properties of offset_calculation *)

RECURSIVE Product(_, _, _)
\* s[from] * ... * s[to]
Product(s, from, to) == IF from > to THEN 1 ELSE s[from] * Product(s, from + 1, to)

\* step 1 of the reference algorithm: byte strides of the logical shape
ReferenceStride(shape, esize, k) ==
    IF k = Len(shape) THEN esize
    ELSE IF shape[k] # 1 THEN esize * Product(shape, k + 1, Len(shape)) ELSE 0

\* step 2: reordered[i] = stride[layout[i]] for an input,
\* reordered[layout[i]] = stride[i] for an output
ReferenceReordered(shape, layout, esize, is_input, i) ==
    IF is_input THEN ReferenceStride(shape, esize, layout[i] + 1)
    ELSE ReferenceStride(shape, esize, CHOOSE p \in DOMAIN layout : layout[p] + 1 = i)

\* steps 3 and 4: all entries but the last, after offset_rank - (n - 1) zeros
ReferenceOffsets(shape, layout, esize, is_input, offset_rank) ==
    [j \in 1..offset_rank |->
        LET pad == offset_rank - (Len(shape) - 1)
        IN IF j <= pad THEN 0
           ELSE ReferenceReordered(shape, layout, esize, is_input, j - pad)]

Computed == phase = "computed"
OffsetRank == Len(master_shape) - 1

\* C2: the vector offset_calculation returns is the one the four-step
\* reference algorithm gives, whose innermost stride is the element size
C2_MatchesReference ==
    Computed => \A j \in 1..OffsetRank :
        /\ Len(oc_strides) = OffsetRank
        /\ oc_strides[j] = ReferenceOffsets(oc_args.shape, oc_args.layout, oc_args.data_size,
                                            oc_args.is_input, OffsetRank)[j]

\* C3: the returned vector has len(master_shape) - 1 entries, master_shape
\* being the master shape padded to parallel_executor_ndims
C3_LengthIsOffsetRank ==
    Computed => /\ Len(master_shape) = kernel.parallel_executor_ndims
                /\ Len(oc_strides) = Len(master_shape) - 1

\* a tensor of lower rank than the padded master shape: zeros were prepended
C3_Witness ==
    /\ Computed
    /\ Len(oc_args.shape) = 2 /\ Len(kernel.master_shape) = 3 /\ Len(master_shape) = 4
    /\ oc_strides[1] = 0 /\ oc_strides[2] = 0 /\ oc_strides[3] # 0

-----------------------------------------------------------------------------
(* Properties of the register allocation *)

Constructed == phase = "constructed"

GprsOf(reg_info) == {r.idx : r \in {q \in Range(reg_info) : q.type = "gpr"}}
\* the general-purpose registers in the reg_info of expression p of a body
NodeGprs(region, p) == GprsOf(region[p].in_regs) \cup GprsOf(region[p].out_regs)
\* the register of a memory-access expression, which carries one
NodeReg(region, p) == (region[p].in_regs \o region[p].out_regs)[1].idx

MemAccess == Range(mem_access_exprs)
MemBuffers == {p \in MemAccess : kernel.region[p].kind = "buffer"}
BufferNodes == {p \in DOMAIN kernel.region : kernel.region[p].kind = "buffer"}
BufferIdsUsed == {kernel.region[p].id : p \in BufferNodes}

\* every physical general-purpose register assigned to an IR value
AssignedGprs == {m[2] : m \in gpr_map}
\* those assigned to the memory-access expressions
MemAccessGprs == UNION {NodeGprs(body, p) : p \in MemAccess}
\* the abstract registers the memory-access expressions came with
MemAccessAbstract == UNION {NodeGprs(kernel.region, p) : p \in MemAccess}

\* every memory-access expression carries a register of its own
OwnRegisters ==
    /\ \A p \in MemAccess : Cardinality(NodeGprs(kernel.region, p)) = 1
    /\ \A p, q \in MemAccess :
          p # q => NodeReg(kernel.region, p) # NodeReg(kernel.region, q)

\* the stack pointer, the frame pointer, abi_param1 and abi_param2
FourReserved == {RSP, RBP, RegIndexes, RegConstParams}

\* C4 as stated: no assigned register is one of the four reserved ones
C4_NoReservedAssigned ==
    Constructed => AssignedGprs \cap FourReserved = {}

\* C4: after both passes no assigned register is the stack or the frame
\* pointer and no two abstract registers share a physical one; the registers
\* of the memory-access expressions, the data-pointer registers, are none of
\* the four reserved ones, while general expressions may take both ABI ones
C4_ReservedKeptFromPointers ==
    Constructed =>
        /\ AssignedGprs \cap {RSP, RBP} = {}
        /\ \A m, n \in gpr_map : m[2] = n[2] => m = n
        /\ MemAccessGprs \cap FourReserved = {}
        /\ Range(data_ptr_regs_idx) \cap FourReserved = {}

\* the general pass gave both ABI registers to values of general expressions
C4_Witness ==
    /\ Constructed
    /\ {RegIndexes, RegConstParams} \subseteq AssignedGprs
    /\ Len(data_ptr_regs_idx) >= 4

\* C5 as stated: the list has one entry per input, output and unique buffer
C5_CountAlways ==
    Constructed =>
        Len(data_ptr_regs_idx) = num_inputs + num_outputs + num_unique_buffers

\* C5: the list has one entry per distinct abstract register of the
\* memory-access expressions, hence one per input, output and unique buffer
\* when each of them carries a register of its own
C5_CountOfDistinctRegisters ==
    Constructed =>
        /\ Len(data_ptr_regs_idx) = Cardinality(MemAccessAbstract)
        /\ OwnRegisters =>
              Len(data_ptr_regs_idx) = num_inputs + num_outputs + num_unique_buffers

\* own registers that are not the canonical ones, with two unique buffers
C5_Witness ==
    /\ Constructed /\ OwnRegisters /\ num_unique_buffers = 2
    /\ NodeReg(kernel.region, 1) # 0
    /\ Len(data_ptr_regs_idx) = 4

\* the inputs by index, then the outputs by index
RoleOrder == get_IO_ops(kernel.region)

PositionsByRole ==
    /\ Len(data_ptr_regs_idx) = NumParams + num_unique_buffers
    /\ \A i \in 1..NumParams : data_ptr_regs_idx[i] = NodeReg(body, RoleOrder[i])
    /\ {data_ptr_regs_idx[NumParams + b] : b \in 1..num_unique_buffers}
           = {NodeReg(body, p) : p \in MemBuffers}

\* the abstract registers grow along inputs, outputs, buffers
RoleOrdered ==
    /\ OwnRegisters
    /\ \A i, j \in 1..Len(RoleOrder) :
          i < j => NodeReg(kernel.region, RoleOrder[i]) < NodeReg(kernel.region, RoleOrder[j])
    /\ \A p \in MemBuffers : \A i \in 1..Len(RoleOrder) :
          NodeReg(kernel.region, RoleOrder[i]) < NodeReg(kernel.region, p)

\* C7 as stated: whatever the abstract registers, position i of a list of
\* the right length holds the register of the i-th input or output, and the
\* buffers' registers follow
C7_RoleOrderAlways == (Constructed /\ ~CountMismatch) => PositionsByRole

\* C7: the list is in the order of the abstract registers; it is inputs,
\* outputs, buffers, for any order of the body, when the abstract registers
\* grow in that order
C7_RoleOrderOfSortedRegisters ==
    Constructed =>
        /\ \A i, j \in 1..Len(data_ptr_regs_idx) :
              i < j => \E m, n \in gpr_map : /\ m[2] = data_ptr_regs_idx[i]
                                             /\ n[2] = data_ptr_regs_idx[j]
                                             /\ m[1] < n[1]
        /\ RoleOrdered => PositionsByRole

\* a body that starts with an output and holds buffers of two ids
C7_Witness ==
    /\ Constructed /\ RoleOrdered /\ num_unique_buffers = 2 /\ num_inputs = 2
    /\ kernel.region[1].io_type = "OUTPUT"
    /\ data_ptr_regs_idx[1] > data_ptr_regs_idx[NumParams]

FirstOccurrence(p) ==
    \A q \in BufferNodes : kernel.region[q].id = kernel.region[p].id => p <= q

PointerRegsOfId(id) == {NodeReg(body, p) : p \in {q \in MemBuffers : kernel.region[q].id = id}}

OnePointerPerId ==
    /\ \A p \in BufferNodes : p \in MemAccess <=> FirstOccurrence(p)
    /\ \A id \in BufferIdsUsed : Cardinality(PointerRegsOfId(id)) = 1
    /\ num_unique_buffers = Cardinality(BufferIdsUsed)

DistinctPointersOfIds ==
    Cardinality(UNION {PointerRegsOfId(id) : id \in BufferIdsUsed}) = Cardinality(BufferIdsUsed)

BufferRegistersDistinct ==
    \A p, q \in MemBuffers : p # q => NodeGprs(kernel.region, p) \cap NodeGprs(kernel.region, q) = {}

\* C8 as stated: one pointer register per buffer id, and as many distinct
\* pointer registers as distinct ids, for any body
C8_DistinctIdsDistinctRegisters ==
    Constructed => (OnePointerPerId /\ DistinctPointersOfIds)

\* C8: only the first buffer node of an id is a memory-access expression,
\* so an id has one pointer register and num_unique_buffers counts the ids;
\* distinct ids have distinct pointer registers when their first nodes carry
\* distinct abstract registers
C8_OnePointerPerBufferId ==
    Constructed =>
        /\ OnePointerPerId
        /\ BufferRegistersDistinct => DistinctPointersOfIds

\* two buffer nodes of one id with different abstract registers
C8_Witness ==
    /\ Constructed
    /\ \E p, q \in BufferNodes :
          /\ p < q /\ kernel.region[p].id = kernel.region[q].id
          /\ NodeReg(kernel.region, p) # NodeReg(kernel.region, q)
          /\ q \notin MemAccess

-----------------------------------------------------------------------------
(* The kernel with as many pointers as the pool holds registers *)

IONodes(k) == {p \in DOMAIN k.region : k.region[p].kind = "io"}
\* inputs, outputs and unique buffers of kernel k
TensorCount(k) ==
    Cardinality(IONodes(k))
    + Cardinality({k.region[p].id : p \in {q \in DOMAIN k.region : k.region[q].kind = "buffer"}})

DistinctRegisters(k) ==
    Cardinality(UNION {NodeGprs(k.region, p) :
                          p \in {q \in DOMAIN k.region : k.region[q].kind # "general"}})
        = TensorCount(k)

UsesParamRegAsScratch ==
    \E p \in 2..init_end : code[p].op = "mov_imm" /\ code[p].dst = RegConstParams

\* a kernel of n tensors and buffers is built, and emit_code() of it emits
\* the fallback path with n pointer registers
CompilesStarved(n) ==
    (TensorCount(kernel) = n /\ DistinctRegisters(kernel) /\ phase # "new") =>
        /\ phase # "failed"
        /\ Len(data_ptr_regs_idx) = n
        /\ Starved
        /\ emit_args = << <<>>, <<>> >> =>
              (phase \in {"emitted", "running", "done"} /\ UsesParamRegAsScratch)

\* C6 as stated: 15 inputs, outputs and buffers
C6_FifteenPointers == CompilesStarved(15)

\* C6: 12 inputs, outputs and buffers, one for each register of the pool
C6_TwelvePointers == CompilesStarved(PoolSize)

C6_Witness ==
    /\ TensorCount(kernel) = PoolSize /\ DistinctRegisters(kernel)
    /\ phase = "done" /\ Starved /\ UsesParamRegAsScratch
    /\ Len(data_ptr_regs_idx) = PoolSize
    /\ regs[data_ptr_regs_idx[num_inputs + num_outputs]] = ExpectedPointer(num_inputs + num_outputs)

====
